---- MODULE Spec2Model ----
(***************************************************************************)
(* Model of main.go: DumpDir (directory walk -> tar stream) and Handler    *)
(* (secret fetch, client construction, producer/upload pipeline joined by  *)
(* an io.Pipe under an errgroup, response).                                *)
(*                                                                         *)
(* Paths are sequences of name components: "sys/x/f" is <<"sys","x","f">>  *)
(* and the walk root "." is <<>>.  Errors are sequences of strings: the    *)
(* wrapping messages added by fmt.Errorf("...: %w") followed by the cause; *)
(* nil is <<>>.                                                            *)
(***************************************************************************)
EXTENDS Integers, Sequences, FiniteSets, TLC

\* ------------------------------------------------------------------ bounds
\* Largest number of units one pipe write carries (a reader may take fewer).
MaxChunk == 2
\* Largest change of a file's length between its stat and its copy.
MaxSkew == 1

\* ------------------------------------------------------------------ errors
Nil == <<>>
ErrPermission == <<"permission denied">>
ErrNotExist == <<"file does not exist">>
ErrIO == <<"input/output error">>
ErrWriteTooLong == <<"archive/tar: write too long">>
ErrMissedWriting == <<"archive/tar: missed writing bytes">>
ErrUnknownMode == <<"archive/tar: unknown file mode">>
ErrNet == <<"network error">>
ErrCanceled == <<"context canceled">>
ErrPresign == <<"presign error">>

\* fmt.Errorf(msg + ": %w", e)
Wrap(msg, e) == <<msg>> \o e

\* errors.Is(e, target): the cause at the end of the wrap chain is target.
Is(e, target) == e # Nil /\ e[Len(e)] = target[1]

\* ------------------------------------------------------------- file system
\* File names in lexicographic (byte) order, as fs.ReadDir sorts them.
NameOrder == <<"a.txt", "dev", "f", "link", "proc", "srv", "sys", "x">>

Rank(n) == CHOOSE i \in 1..Len(NameOrder) : NameOrder[i] = n

\* The one top-level directory of a tree is named by one of these.
TopDirs == {"dev", "proc", "srv", "sys"}

Paths == {<<"a.txt">>, <<"link">>}
         \cup {<<d>> : d \in TopDirs}
         \cup {<<d, "x">> : d \in TopDirs}
         \cup {<<d, "x", "f">> : d \in TopDirs}

FileSizes == {0, 10}

Absent == [kind |-> "absent", readable |-> FALSE, size |-> 0, target |-> ""]
Dir(r) == [kind |-> "dir", readable |-> r, size |-> 0, target |-> ""]
Reg(r, n) == [kind |-> "reg", readable |-> r, size |-> n, target |-> ""]
Symlink(t) == [kind |-> "symlink", readable |-> TRUE, size |-> 0, target |-> t]
Special(k, r) == [kind |-> k, readable |-> r, size |-> 0, target |-> ""]

\* What a.txt and link may be.
FileNodes == {Reg(r, n) : r \in BOOLEAN, n \in FileSizes}
LinkNodes == {Symlink("a.txt"), Special("socket", TRUE), Special("fifo", FALSE),
              Special("irregular", TRUE)}

\* The tree with top directory d: a.txt, link, d/, d/x/, d/x/f.
Tree(d, a, l) ==
    [p \in Paths |->
        IF p = <<"a.txt">> THEN a
        ELSE IF p = <<"link">> THEN l
        ELSE IF p = <<d>> \/ p = <<d, "x">> THEN Dir(TRUE)
        ELSE IF p = <<d, "x", "f">> THEN Reg(TRUE, 10)
        ELSE Absent]

FSSet == {Tree(d, a, l) : d \in TopDirs, a \in FileNodes, l \in LinkNodes}

\* The tree of the end-to-end scenario: a.txt (10 bytes, world-readable),
\* sys/x/f, link -> a.txt.
ScenarioFS == Tree("sys", Reg(TRUE, 10), Symlink("a.txt"))

\* --------------------------------------------------------------- variables
VARIABLES
    fs,            \* the tree under dumpPath: [Paths -> node]
    hpc,           \* Handler's position
    status,        \* HTTP status written (0: none yet)
    body,          \* response body written (<<>>: none yet)
    timingHdr,     \* the Server-Timing header is set
    s3client,      \* NewS3Client was called and returned a client
    presignCtx,    \* state of ctx when PresignedGetObject was called
    gerr,          \* errg's first error
    ctxDone,       \* the errgroup's derived context is cancelled
    pipePending,   \* unread units of the pipe write in progress
    pipeClosed,    \* "open", "eof" (pipeW.Close) or "err" (CloseWithError)
    pipeErr,       \* the error pipeW was closed with
    upc,           \* upload task's position
    uerr,          \* PutObject's error
    putInfo,       \* PutObject returned an UploadInfo
    sawEOF,        \* a read of pipeR returned io.EOF
    readErr,       \* the error a read of pipeR returned
    ppc,           \* producer task's position
    derr,          \* DumpDir's returned error
    stack,         \* WalkDir's recursion: entries left to walk, per level
    cur,           \* the node the producer is working on
    entries,       \* headers written to archW, with their content counts
    calls,         \* invocations of the walk callback: path and err argument
    tarRemaining,  \* archW's curr.logicalRemaining(): bytes the entry lacks
    finalized,     \* archW.Close wrote the trailer
    gzHeader,      \* gzipW wrote its header
    fsFault,       \* an operation of the walk on the file system failed or raced
    readlinks      \* the walk's calls of os.Readlink: path and error

hvars == <<hpc, status, body, timingHdr, s3client, presignCtx>>
gvars == <<gerr, ctxDone>>
pvars == <<pipePending, pipeClosed, pipeErr>>
uvars == <<upc, uerr, putInfo, sawEOF, readErr>>
wvars == <<ppc, derr, stack, cur, entries, calls, tarRemaining, finalized, gzHeader,
          fsFault, readlinks>>
vars == <<fs, hvars, gvars, pvars, uvars, wvars>>

\* ------------------------------------------------------- DumpDir's helpers
\* strings.HasPrefix(p, name + "/")
HasPrefix(p, name) == Len(p) >= 2 /\ p[1] = name

\* SkipPath comparing the first component without the trailing slash.
SkipPathBare(p) ==
    \/ (Len(p) >= 1 /\ p[1] \in {"dev", "proc", "sys"})
    \/ p = <<>>

\* SkipPath without the test for sys/.
SkipPathNoSys(p) ==
    \/ HasPrefix(p, "dev")
    \/ HasPrefix(p, "proc")
    \/ p = <<>>

\* The callback's first test: the path is skipped.
SkipPath(p) ==
    \/ HasPrefix(p, "dev")
    \/ HasPrefix(p, "proc")
    \/ HasPrefix(p, "sys")
    \/ p = <<>>

\* The callback's second test: a walker error other than permission denied.
WalkErrFatal(e) == e # Nil /\ ~Is(e, ErrPermission)

\* The existing nodes directly below p.
Children(f, p) ==
    {q \in Paths : /\ Len(q) = Len(p) + 1
                   /\ SubSeq(q, 1, Len(p)) = p
                   /\ f[q].kind # "absent"}

RECURSIVE SortPaths(_)
SortPaths(S) ==
    IF S = {} THEN <<>>
    ELSE LET m == CHOOSE q \in S :
                      \A r \in S : Rank(q[Len(q)]) <= Rank(r[Len(r)])
         IN <<m>> \o SortPaths(S \ {m})

\* ReadDir returning the entries in the opposite order.
ReadDirReverse(f, p) ==
    LET l == SortPaths(Children(f, p))
    IN [i \in 1..Len(l) |-> l[Len(l) + 1 - i]]

\* fs.ReadDir: the directory's entries sorted by file name.
ReadDir(f, p) == SortPaths(Children(f, p))

\* d.IsDir() of the entry walked as p (the root is a directory).
IsDirEntry(f, p) == p = <<>> \/ f[p].kind = "dir"

\* LinkTarget without the placeholder: whatever os.Readlink returned.
LinkTargetRaw(rl) == rl.target

\* The link stored for a symlink from os.Readlink's result.
LinkTarget(rl) == IF Is(rl.err, ErrPermission) THEN "permission denied" ELSE rl.target

\* os.Readlink's error that aborts the walk.
ReadlinkFatal(rl) == rl.err # Nil /\ ~Is(rl.err, ErrPermission)

\* tar.FileInfoHeader: type and size by mode; sockets and unknown modes fail.
FileInfoHeaderErr(info) == info.kind \in {"socket", "irregular"}

FileInfoHeaderSize(info) == IF info.kind = "reg" THEN info.size ELSE 0

\* fileReadable: the other-read permission bit.
FileReadable(info) == info.readable

\* HdrSize without the reset for unreadable files.
HdrSizeKeep(info) == FileInfoHeaderSize(info)

\* hdr.Size as handed to WriteHeader.
HdrSize(info) == IF ~FileReadable(info) THEN 0 ELSE FileInfoHeaderSize(info)

\* The content is copied after the header.
CopiesContent(info) == info.kind = "reg" /\ FileReadable(info)

\* The header the callback writes for p.
Hdr(p, info, link) ==
    [name |-> p, type |-> info.kind, size |-> HdrSize(info), link |-> link,
     written |-> 0, readLen |-> -1]

Min(a, b) == IF a <= b THEN a ELSE b

\* TarAccepts without the cut at the declared size.
TarAcceptsAll(n, rem) == n

\* Bytes archW.Write accepts of a write of n bytes with rem bytes expected.
TarAccepts(n, rem) == Min(n, rem)

\* The file's length when it is read, given its length at stat time.
ReadLens(n) == {m \in (n - MaxSkew)..(n + MaxSkew) : m >= 0}

\* Pop the directory levels that are walked through.
RECURSIVE Norm(_)
Norm(st) == IF st # <<>> /\ Head(st) = <<>> THEN Norm(Tail(st)) ELSE st

\* ------------------------------------------------------------ the producer
\* A write of archW reaches gzipW, which buffers it or writes a chunk to
\* pipeW; gzipW's first write always emits the gzip header.  pipeW.Write
\* returns when the reader has consumed the chunk (pipePending = 0).
TarWrite ==
    \E emit \in BOOLEAN, n \in 1..MaxChunk :
        /\ gzHeader' = TRUE
        /\ IF emit \/ ~gzHeader
           THEN pipePending' = n
           ELSE pipePending' = pipePending

NoWrite == UNCHANGED <<gzHeader, pipePending>>

\* ProducerRuns with a pipe write that returns before it is consumed.
ProducerRunsAhead == hpc = "wait"

\* The producer runs: its previous pipe write, if any, has returned.
ProducerRuns == hpc = "wait" /\ pipePending = 0

\* WalkAbort returning the callback's error as it is.
WalkAbortBare(err) ==
    /\ ppc' = "gzclose"
    /\ derr' = err
    /\ stack' = <<>>
    /\ cur' = <<>>

\* The callback returns err: WalkDir returns it and DumpDir wraps it.
WalkAbort(err) ==
    /\ ppc' = "gzclose"
    /\ derr' = Wrap("error dumping dir", err)
    /\ stack' = <<>>
    /\ cur' = <<>>

\* The callback returns nil: walkDir lists p if this was the first call for
\* a directory, and goes on with the entries left otherwise.
WalkOn(p, first, rest) ==
    /\ derr' = derr
    /\ IF first /\ IsDirEntry(fs, p)
       THEN ppc' = "readdir" /\ cur' = p /\ stack' = rest
       ELSE ppc' = "walk" /\ cur' = <<>> /\ stack' = Norm(rest)

\* An operation on the file system failed, or saw a file changed under it.
Fault(b) == fsFault' = (fsFault \/ b)

\* The callback's call of os.Readlink for p and its result.
LogReadlink(p, rl) == readlinks' = readlinks \cup {[path |-> p, err |-> rl.err]}

\* The callback returns before it builds a header.
NoEntry == NoWrite /\ UNCHANGED <<entries, tarRemaining>>

\* hdr built, hdr.Name = p, archW.WriteHeader(hdr), then return or copy.
WriteEntry(p, info, link, first, rest) ==
    IF FileInfoHeaderErr(info)
    THEN /\ WalkAbort(Wrap("error generating tar header", ErrUnknownMode))
         /\ NoEntry
    ELSE IF tarRemaining > 0
    THEN /\ WalkAbort(Wrap("error writing header", ErrMissedWriting))
         /\ NoEntry
    ELSE /\ entries' = Append(entries, Hdr(p, info, link))
         /\ tarRemaining' = HdrSize(info)
         /\ TarWrite
         /\ IF CopiesContent(info)
            THEN ppc' = "copy" /\ cur' = p /\ stack' = rest /\ derr' = derr
            ELSE WalkOn(p, first, rest)

\* The walk callback for path p with the walker's err argument e, up to its
\* return or to the point where it opens the file.
WalkFn(p, e, first, rest) ==
    /\ calls' = Append(calls, [path |-> p, err |-> e])
    /\ finalized' = finalized
    /\ IF SkipPath(p)
       THEN /\ WalkOn(p, first, rest)
            /\ NoEntry
            /\ Fault(e # Nil)
            /\ readlinks' = readlinks
       ELSE IF WalkErrFatal(e)
       THEN /\ WalkAbort(e)
            /\ NoEntry
            /\ Fault(TRUE)
            /\ readlinks' = readlinks
       ELSE \E ie \in {Nil, ErrNotExist, ErrPermission, ErrIO} :
           /\ IF Is(ie, ErrNotExist)
              THEN /\ WalkOn(p, first, rest)
                   /\ NoEntry
                   /\ Fault(TRUE)
                   /\ readlinks' = readlinks
              ELSE IF ie # Nil
              THEN /\ WalkAbort(Wrap("error getting file info", ie))
                   /\ NoEntry
                   /\ Fault(TRUE)
                   /\ readlinks' = readlinks
              ELSE LET fileInfo == fs[p] IN
                  IF fileInfo.kind = "symlink"
                  THEN \E rl \in {[err |-> Nil, target |-> fileInfo.target],
                                  [err |-> ErrPermission, target |-> ""],
                                  [err |-> ErrNotExist, target |-> ""]} :
                          /\ LogReadlink(p, rl)
                          /\ Fault(e # Nil \/ rl.err # Nil)
                          /\ IF ReadlinkFatal(rl)
                             THEN /\ WalkAbort(Wrap("error reading link", rl.err))
                                  /\ NoEntry
                             ELSE WriteEntry(p, fileInfo, LinkTarget(rl), first, rest)
                  ELSE IF fileInfo.kind = "socket"
                  THEN /\ WalkOn(p, first, rest)
                       /\ NoEntry
                       /\ Fault(e # Nil)
                       /\ readlinks' = readlinks
                  ELSE /\ WriteEntry(p, fileInfo, "", first, rest)
                       /\ Fault(e # Nil)
                       /\ readlinks' = readlinks

\* DumpDir starts: fs.WalkDir stats the root and calls the callback for ".".
DumpDirStart ==
    /\ ProducerRuns
    /\ ppc = "start"
    /\ \E se \in {Nil, ErrNotExist, ErrPermission} :
           WalkFn(<<>>, se, se = Nil, <<>>)
    /\ UNCHANGED <<fs, hvars, gvars, uvars, pipeClosed, pipeErr>>

\* walkDir calls the callback for the next entry of the directory walked.
Visit ==
    /\ ProducerRuns
    /\ ppc = "walk"
    /\ stack # <<>>
    /\ LET p == Head(Head(stack))
           rest == <<Tail(Head(stack))>> \o Tail(stack)
       IN WalkFn(p, Nil, TRUE, rest)
    /\ UNCHANGED <<fs, hvars, gvars, uvars, pipeClosed, pipeErr>>

\* walkDir lists the directory cur; on an error it calls the callback a
\* second time with it, and the directory then has no entries to walk.
ListDir ==
    /\ ProducerRuns
    /\ ppc = "readdir"
    /\ \E le \in {Nil, ErrPermission, ErrNotExist} :
           IF le = Nil
           THEN /\ ppc' = "walk"
                /\ stack' = Norm(<<ReadDir(fs, cur)>> \o stack)
                /\ cur' = <<>>
                /\ NoWrite
                /\ UNCHANGED <<derr, entries, calls, tarRemaining, finalized>>
                /\ UNCHANGED <<fsFault, readlinks>>
           ELSE WalkFn(cur, le, FALSE, stack)
    /\ UNCHANGED <<fs, hvars, gvars, uvars, pipeClosed, pipeErr>>

\* The callback opens the file and copies it into archW.
CopyFile ==
    /\ ProducerRuns
    /\ ppc = "copy"
    /\ \E oe \in {Nil, ErrNotExist, ErrPermission} :
         IF oe # Nil
         THEN /\ WalkAbort(Wrap("error reading file", oe))
              /\ NoEntry
              /\ Fault(TRUE)
         ELSE \E rlen \in ReadLens(fs[cur].size), re \in {Nil, ErrIO} :
              LET n == TarAccepts(rlen, tarRemaining)
                  last == Len(entries)
                  cerr == IF rlen > tarRemaining THEN ErrWriteTooLong ELSE re
              IN /\ entries' = [entries EXCEPT ![last].written = n,
                                               ![last].readLen = rlen]
                 /\ tarRemaining' = tarRemaining - n
                 /\ IF n > 0 THEN TarWrite ELSE NoWrite
                 /\ Fault(rlen # fs[cur].size \/ re # Nil)
                 /\ IF cerr # Nil
                    THEN WalkAbort(Wrap("can't copy file", cerr))
                    ELSE WalkOn(cur, FALSE, stack)
    /\ UNCHANGED <<calls, finalized, readlinks>>
    /\ UNCHANGED <<fs, hvars, gvars, uvars, pipeClosed, pipeErr>>

\* WalkDir returned nil: archW.Close() flushes the entry and writes the trailer.
ArchClose ==
    /\ ProducerRuns
    /\ ppc = "walk"
    /\ stack = <<>>
    /\ IF tarRemaining > 0
       THEN derr' = ErrMissedWriting /\ finalized' = FALSE /\ NoWrite
       ELSE derr' = Nil /\ finalized' = TRUE /\ TarWrite
    /\ ppc' = "gzclose"
    /\ UNCHANGED <<stack, cur, entries, calls, tarRemaining, fsFault, readlinks>>
    /\ UNCHANGED <<fs, hvars, gvars, uvars, pipeClosed, pipeErr>>

\* DumpDir returned: gzipW.Close() writes what is buffered and the footer.
GzipClose ==
    /\ ProducerRuns
    /\ ppc = "gzclose"
    /\ \E n \in 1..MaxChunk : pipePending' = n
    /\ gzHeader' = TRUE
    /\ ppc' = "pipeclose"
    /\ UNCHANGED <<derr, stack, cur, entries, calls, tarRemaining, finalized>>
    /\ UNCHANGED <<fsFault, readlinks>>
    /\ UNCHANGED <<fs, hvars, gvars, uvars, pipeClosed, pipeErr>>

\* CloseKind always closing cleanly.
CloseKindEof(err) == "eof"

\* CloseKind always closing with an error.
CloseKindErr(err) == "err"

\* How the producer closes pipeW for DumpDir's result.
CloseKind(err) == IF err # Nil THEN "err" ELSE "eof"

\* errgroup: the first non-nil error returned by a task is kept and cancels ctx.
GroupErr(old, err) == IF old = Nil THEN err ELSE old

GroupCancel(done, err) == done \/ err # Nil

\* pipeW.CloseWithError(err) or pipeW.Close(); the task returns err.
PipeClose ==
    /\ ProducerRuns
    /\ ppc = "pipeclose"
    /\ pipeClosed' = CloseKind(derr)
    /\ pipeErr' = derr
    /\ gerr' = GroupErr(gerr, derr)
    /\ ctxDone' = GroupCancel(ctxDone, derr)
    /\ ppc' = "done"
    /\ pipePending' = pipePending
    /\ UNCHANGED <<derr, stack, cur, entries, calls, tarRemaining, finalized, gzHeader>>
    /\ UNCHANGED <<fsFault, readlinks>>
    /\ UNCHANGED <<fs, hvars, uvars>>

\* ---------------------------------------------------------- the upload task
\* The error of a failed request of the storage client.
NetErr == IF ctxDone THEN ErrCanceled ELSE ErrNet

\* The upload task returns err to the errgroup.
UploadReturns(err) ==
    /\ upc' = "done"
    /\ uerr' = err
    /\ gerr' = GroupErr(gerr, err)
    /\ ctxDone' = GroupCancel(ctxDone, err)

\* PutObject's position after a request that succeeded.
AfterRequest(pc) == IF pc = "final" THEN "done" ELSE "read"

\* A request of PutObject to the storage service: starting the multipart
\* upload ("init"), uploading a part ("send"), completing the object ("final").
UploadRequest ==
    /\ hpc = "wait"
    /\ upc \in {"init", "send", "final"}
    /\ \E ok \in BOOLEAN :
           IF ok
           THEN /\ upc' = AfterRequest(upc)
                /\ putInfo' = (upc = "final")
                /\ UNCHANGED <<uerr, gvars>>
           ELSE /\ UploadReturns(NetErr)
                /\ putInfo' = putInfo
    /\ UNCHANGED <<sawEOF, readErr>>
    /\ UNCHANGED <<fs, hvars, pvars, wvars>>

\* PutObject reads pipeR: it takes bytes of the pending write, or finds the
\* pipe closed; with nothing pending and the pipe open it blocks.
UploadRead ==
    /\ hpc = "wait"
    /\ upc = "read"
    /\ \/ /\ pipePending > 0
          /\ \E k \in 1..pipePending, full \in BOOLEAN :
                 /\ pipePending' = pipePending - k
                 /\ upc' = IF full THEN "send" ELSE "read"
          /\ UNCHANGED <<uerr, putInfo, sawEOF, readErr, gvars>>
       \/ /\ pipePending = 0
          /\ pipeClosed = "eof"
          /\ sawEOF' = TRUE
          /\ upc' = "final"
          /\ UNCHANGED <<pipePending, uerr, putInfo, readErr, gvars>>
       \/ /\ pipePending = 0
          /\ pipeClosed = "err"
          /\ readErr' = pipeErr
          /\ UploadReturns(pipeErr)
          /\ UNCHANGED <<pipePending, putInfo, sawEOF>>
    /\ UNCHANGED <<pipeClosed, pipeErr>>
    /\ UNCHANGED <<fs, hvars, wvars>>

\* ----------------------------------------------------------------- Handler
\* HttpError writing the message as a plain body, so the status stays 200.
HttpErrorPlain(msg, code) == status' = 200 /\ body' = msg

\* http.Error(w, msg, code)
HttpError(msg, code) == status' = code /\ body' = msg

\* ycsdk.Build
BuildSDK ==
    /\ hpc = "sdk"
    /\ \E ok \in BOOLEAN :
           IF ok
           THEN hpc' = "secret" /\ UNCHANGED <<status, body>>
           ELSE hpc' = "done" /\ HttpError(<<"can't initalize sdk">>, 500)
    /\ UNCHANGED <<timingHdr, s3client, presignCtx>>
    /\ UNCHANGED <<fs, gvars, pvars, uvars, wvars>>

\* AfterSecret without the return on the failure path.
AfterSecretNoReturn(ok) == "client"

\* Handler's position after getSecret: it returns when getSecret failed.
AfterSecret(ok) == IF ok THEN "client" ELSE "done"

\* getSecret
GetSecret ==
    /\ hpc = "secret"
    /\ \E ok \in BOOLEAN :
           /\ hpc' = AfterSecret(ok)
           /\ IF ok
              THEN UNCHANGED <<status, body>>
              ELSE HttpError(<<"can't get secrets">>, 500)
    /\ UNCHANGED <<timingHdr, s3client, presignCtx>>
    /\ UNCHANGED <<fs, gvars, pvars, uvars, wvars>>

\* NewS3Client
NewS3Client ==
    /\ hpc = "client"
    /\ \E ok \in BOOLEAN :
           IF ok
           THEN hpc' = "pipeline" /\ s3client' = TRUE /\ UNCHANGED <<status, body>>
           ELSE /\ hpc' = "done"
                /\ s3client' = FALSE
                /\ HttpError(<<"s3 unavailable">>, 500)
    /\ UNCHANGED <<timingHdr, presignCtx>>
    /\ UNCHANGED <<fs, gvars, pvars, uvars, wvars>>

\* errgroup.WithContext, io.Pipe, errg.Go() twice; Handler then waits.
StartPipeline ==
    /\ hpc = "pipeline"
    /\ hpc' = "wait"
    /\ upc' = "init"
    /\ ppc' = "start"
    /\ UNCHANGED <<status, body, timingHdr, s3client, presignCtx>>
    /\ UNCHANGED <<uerr, putInfo, sawEOF, readErr>>
    /\ UNCHANGED <<derr, stack, cur, entries, calls, tarRemaining, finalized, gzHeader>>
    /\ UNCHANGED <<fsFault, readlinks>>
    /\ UNCHANGED <<fs, gvars, pvars>>

\* The Server-Timing header is set when Handler gets here.
SetsTiming(pc) == pc = "wait"

\* WriteOk left out before the URL is minted: no status is written yet.
WriteOkLate == status' = status

\* w.WriteHeader(http.StatusOK)
WriteOk == status' = 200

\* CtxAfterWait with a Wait that leaves ctx as the tasks left it.
CtxAfterWaitKeep(done) == done

\* errg.Wait() cancels the derived context when it returns.
CtxAfterWait(done) == TRUE

\* errg.Wait() returns once both tasks have returned, and cancels ctx; the
\* timing header is set; a pipeline error is answered with 500, else 200.
WaitReturns ==
    /\ hpc = "wait"
    /\ upc = "done"
    /\ ppc = "done"
    /\ ctxDone' = CtxAfterWait(ctxDone)
    /\ gerr' = gerr
    /\ timingHdr' = SetsTiming(hpc)
    /\ IF gerr # Nil
       THEN hpc' = "done" /\ HttpError(gerr, 500)
       ELSE hpc' = "presign" /\ WriteOk /\ body' = body
    /\ UNCHANGED <<s3client, presignCtx>>
    /\ UNCHANGED <<fs, pvars, uvars, wvars>>

\* The body written after PresignedGetObject: the URL, or the error text.
PresignBody(ok) ==
    IF ok THEN <<"url">> ELSE Wrap("error generating presigned url", ErrPresign)

\* s3client.PresignedGetObject(ctx, ...) and the body.
Presign ==
    /\ hpc = "presign"
    /\ presignCtx' = IF ctxDone THEN "canceled" ELSE "live"
    /\ \E ok \in BOOLEAN : body' = PresignBody(ok)
    /\ hpc' = "done"
    /\ UNCHANGED <<status, timingHdr, s3client>>
    /\ UNCHANGED <<fs, gvars, pvars, uvars, wvars>>

\* ----------------------------------------------------------- specification
Init ==
    /\ fs \in FSSet
    /\ hpc = "sdk"
    /\ status = 0
    /\ body = <<>>
    /\ timingHdr = FALSE
    /\ s3client = FALSE
    /\ presignCtx = "none"
    /\ gerr = Nil
    /\ ctxDone = FALSE
    /\ pipePending = 0
    /\ pipeClosed = "open"
    /\ pipeErr = Nil
    /\ upc = "idle"
    /\ uerr = Nil
    /\ putInfo = FALSE
    /\ sawEOF = FALSE
    /\ readErr = Nil
    /\ ppc = "idle"
    /\ derr = Nil
    /\ stack = <<>>
    /\ cur = <<>>
    /\ entries = <<>>
    /\ calls = <<>>
    /\ tarRemaining = 0
    /\ finalized = FALSE
    /\ gzHeader = FALSE
    /\ fsFault = FALSE
    /\ readlinks = {}

Next ==
    \/ BuildSDK
    \/ GetSecret
    \/ NewS3Client
    \/ StartPipeline
    \/ UploadRequest
    \/ UploadRead
    \/ DumpDirStart
    \/ Visit
    \/ ListDir
    \/ CopyFile
    \/ ArchClose
    \/ GzipClose
    \/ PipeClose
    \/ WaitReturns
    \/ Presign

Spec == Init /\ [][Next]_vars

\* Every task that can take a step eventually takes one.
FairSpec == Spec /\ WF_vars(Next)

\* ------------------------------------------------------------------ claims
VirtualNames == {"dev", "proc", "sys"}

\* DumpDir has returned (with derr).
WalkOver == ppc \in {"gzclose", "pipeclose", "done"}

\* The producer task has returned.
ProducerDone == ppc = "done"

\* The upload task has returned.
UploadDone == upc = "done"

EntryAt(p) == {i \in 1..Len(entries) : entries[i].name = p}

\* C1: once a sub-task has failed the pipeline is never stuck: while Handler
\* waits, some task can still take a step, so the other task terminates,
\* errg.Wait returns and a response is written.
C1_FailureReleasesPipeline ==
    (hpc = "wait" /\ (uerr # Nil \/ derr # Nil)) => ENABLED Next

\* C2: once DumpDir has returned an error, the upload task never sees a
\* clean end of stream and never succeeds; if it reads the closed pipe it
\* gets that error, it ends with an error, and errg.Wait's result is non-nil.
C2_ProducerFailureSurfaces ==
    derr # Nil =>
        /\ ~sawEOF
        /\ ~putInfo
        /\ pipeClosed # "eof"
        /\ (readErr # Nil => readErr = derr)
        /\ (UploadDone => uerr # Nil)
        /\ (UploadDone /\ ProducerDone => gerr # Nil)
        /\ (UploadDone /\ ProducerDone /\ uerr \notin {ErrNet, ErrCanceled}
                => readErr = derr)
        /\ (hpc \in {"presign", "done"} => status = 500 /\ body = gerr)

C2_Witness ==
    /\ derr # Nil
    /\ readErr = derr
    /\ gerr = derr
    /\ hpc = "done"
    /\ \E i \in 1..Len(entries) : entries[i].written > 0

\* C3 as stated: when the producer task has succeeded and the upload task
\* has returned, the upload saw a clean end of stream and the result is
\* putInfo with no error.
C3_ProducerSuccessMeansSuccess ==
    (ProducerDone /\ derr = Nil /\ UploadDone) => (sawEOF /\ putInfo /\ gerr = Nil)

\* C3 amended: when the producer task has succeeded, the archive is
\* finalized, the pipe is closed cleanly with every written byte consumed,
\* and no read of the pipe returned an error; the result is putInfo with no
\* error (after a clean end of stream) unless PutObject failed on a request
\* of its own, and then it is that error.
C3_ProducerSuccessCleanEOF ==
    (ProducerDone /\ derr = Nil) =>
        /\ finalized
        /\ pipeClosed = "eof"
        /\ pipePending = 0
        /\ readErr = Nil
        /\ (putInfo => sawEOF)
        /\ (UploadDone =>
               IF uerr = Nil
               THEN sawEOF /\ putInfo /\ gerr = Nil
               ELSE uerr = ErrNet /\ gerr = uerr /\ ~putInfo)
        /\ (hpc \in {"presign", "done"} => (status = 200 <=> putInfo))

C3_Witness ==
    /\ ProducerDone
    /\ derr = Nil
    /\ sawEOF
    /\ putInfo
    /\ hpc = "presign"
    /\ status = 200

\* C4: no node whose path starts with dev/, proc/ or sys/ has an archive
\* entry, and the walk callback is never invoked for a node below a
\* directory whose path starts so.
C4_VirtualTreesNotWalked ==
    /\ \A i \in 1..Len(entries) :
           ~(Len(entries[i].name) >= 2 /\ entries[i].name[1] \in VirtualNames)
    /\ \A i \in 1..Len(calls) :
           ~(Len(calls[i].path) >= 3 /\ calls[i].path[1] \in VirtualNames)

\* C5 as stated: once DumpDir has returned, also after an aborted walk,
\* every entry with no content written has declared size 0.
C5_NoContentMeansSizeZero ==
    WalkOver => \A i \in 1..Len(entries) :
                    entries[i].written = 0 => entries[i].size = 0

\* C5 amended: in every state an entry of a node whose content the policy
\* elides (not a regular file, or no other-read permission) has declared
\* size 0 and no content bytes; an entry that keeps a declared size above 0
\* with no content is left only by a walk that aborted, and the archive is
\* then not finalized.
C5_ElidedEntriesSizeZero ==
    \A i \in 1..Len(entries) :
        LET e == entries[i] IN
        /\ (e.type # "reg" \/ ~fs[e.name].readable) =>
               (e.size = 0 /\ e.written = 0 /\ e.readLen = -1)
        /\ (WalkOver /\ e.size > 0 /\ e.written = 0) => (derr # Nil /\ ~finalized)

C5_Witness ==
    /\ finalized
    /\ \E i \in 1..Len(entries) :
           /\ entries[i].type = "reg"
           /\ ~fs[entries[i].name].readable
           /\ fs[entries[i].name].size > 0
           /\ entries[i].size = 0

\* C6 as stated: for every readable regular file that was copied, the
\* declared size equals the number of content bytes written, and these are
\* the whole file as read.
C6_SizeEqualsContent ==
    \A i \in 1..Len(entries) :
        entries[i].readLen # -1 =>
            (entries[i].size = entries[i].written
             /\ entries[i].written = entries[i].readLen)

\* C6 amended: the content bytes written for a readable regular file are
\* the file as read, cut at the declared size: they equal the declared size
\* and the whole file when the length is the same at stat and at copy, and
\* in every finalized archive; when the length changed DumpDir returns an
\* error and does not finalize the archive.
C6_ContentWithinDeclaredSize ==
    \A i \in 1..Len(entries) :
        LET e == entries[i] IN
        /\ e.readLen # -1 =>
               /\ e.type = "reg" /\ fs[e.name].readable
               /\ e.size = fs[e.name].size
               /\ e.written = Min(e.size, e.readLen)
               /\ (WalkOver /\ e.readLen # e.size) => (derr # Nil /\ ~finalized)
        /\ (finalized /\ e.type = "reg" /\ fs[e.name].readable) =>
               (e.size = e.written /\ e.written = e.readLen)

C6_Witness ==
    /\ finalized
    /\ \E i \in 1..Len(entries) :
           /\ entries[i].size = 10
           /\ entries[i].written = 10
           /\ entries[i].readLen = 10

\* C7: no node has two archive entries.
C7_AtMostOneEntryPerNode ==
    \A i, j \in 1..Len(entries) : entries[i].name = entries[j].name => i = j

\* The names of the entries, in archive order.
EntryNames == [i \in 1..Len(entries) |-> entries[i].name]

\* DumpDir walked the scenario tree with no failure and no race and closed
\* the archive.
ScenarioDone == fs = ScenarioFS /\ finalized /\ ~fsFault

\* C8 as stated: the scenario tree gives exactly the entries a.txt and link.
C8_ScenarioTwoEntries ==
    ScenarioDone => EntryNames = <<(<<"a.txt">>), (<<"link">>)>>

\* C8 amended: the scenario tree gives exactly three entries: a.txt with
\* size 10 and its 10 bytes, link with target a.txt, and the directory sys
\* itself with size 0; nothing below sys has an entry.
C8_ScenarioThreeEntries ==
    ScenarioDone =>
        entries = << [name |-> <<"a.txt">>, type |-> "reg", size |-> 10, link |-> "",
                      written |-> 10, readLen |-> 10],
                     [name |-> <<"link">>, type |-> "symlink", size |-> 0,
                      link |-> "a.txt", written |-> 0, readLen |-> -1],
                     [name |-> <<"sys">>, type |-> "dir", size |-> 0, link |-> "",
                      written |-> 0, readLen |-> -1] >>

C8_Witness == ScenarioDone /\ Len(entries) = 3

\* C9: a symlink's entry stores the target os.Readlink returned, or the
\* literal "permission denied" when it failed with permission denied, and
\* the walk then goes on; any other error of os.Readlink makes DumpDir
\* return it wrapped, with no entry for the symlink.
C9_SymlinkTarget ==
    /\ \A i \in 1..Len(entries) :
           entries[i].type = "symlink" =>
               \E r \in readlinks :
                   /\ r.path = entries[i].name
                   /\ entries[i].link = IF r.err = ErrPermission
                                        THEN "permission denied"
                                        ELSE fs[r.path].target
                   /\ r.err \in {Nil, ErrPermission}
    /\ \A r \in readlinks :
           IF r.err \in {Nil, ErrPermission}
           THEN ~(Len(derr) >= 2 /\ derr[2] = "error reading link")
           ELSE /\ derr = Wrap("error dumping dir", Wrap("error reading link", r.err))
                /\ EntryAt(r.path) = {}

C9_Witness ==
    /\ finalized
    /\ \E i \in 1..Len(entries) :
           /\ entries[i].type = "symlink"
           /\ entries[i].link = "permission denied"
           /\ i < Len(entries)

\* C10: whenever a status or a body has been written, the Server-Timing
\* header is set.
C10_TimingOnEveryResponse == (status # 0 \/ body # <<>>) => timingHdr

\* No storage client, no pipe, no sub-task and no upload exist.
NothingStarted ==
    /\ ~s3client
    /\ upc = "idle"
    /\ ppc = "idle"
    /\ pipePending = 0
    /\ pipeClosed = "open"
    /\ ~gzHeader
    /\ calls = <<>>
    /\ entries = <<>>
    /\ gerr = Nil
    /\ ~ctxDone
    /\ ~putInfo
    /\ presignCtx = "none"

\* C11: when getSecret has failed, the response is status 500 with the
\* body "can't get secrets", Handler has returned, and no storage client
\* was constructed, no pipe or sub-task started and no upload attempted.
C11_SecretFailureStopsRequest ==
    body = <<"can't get secrets">> =>
        (status = 500 /\ hpc = "done" /\ NothingStarted)

C11_Witness == body = <<"can't get secrets">> /\ status = 500 /\ hpc = "done"

\* C12: status 200 is written before the presigned URL is minted, and when
\* minting fails after a successful pipeline the body is the minting error
\* text and not a URL, with the status still 200.
C12_MintFailureAfter200 ==
    /\ hpc = "presign" => (status = 200 /\ body = <<>> /\ putInfo /\ gerr = Nil)
    /\ (hpc = "done" /\ status = 200) =>
           /\ putInfo /\ gerr = Nil /\ presignCtx # "none"
           /\ body \in {<<"url">>, Wrap("error generating presigned url", ErrPresign)}
    /\ presignCtx # "none" => status = 200

C12_Witness ==
    /\ hpc = "done"
    /\ status = 200
    /\ body = Wrap("error generating presigned url", ErrPresign)

\* The step of Handler that failed, told by the state: "none" if none did.
FailedStep ==
    IF gerr # Nil THEN "pipeline"
    ELSE IF s3client THEN "none"
    ELSE IF body = <<"can't initalize sdk">> THEN "sdk"
    ELSE IF body = <<"can't get secrets">> THEN "secret"
    ELSE IF body = <<"s3 unavailable">> THEN "client"
    ELSE "none"

\* C13: a status, once written, never changes; when Handler has returned
\* the status is 500 if SDK init, secret fetch, client construction or the
\* pipeline failed, each with its own message and with every later step
\* not run, and 200 otherwise, also when only URL minting failed.
C13_OneStatusPerRequest ==
    /\ [](hpc = "done" =>
            /\ status \in {200, 500}
            /\ (status = 500) <=> (FailedStep # "none")
            /\ (~s3client) => (status = 500 /\ NothingStarted /\ FailedStep # "pipeline")
            /\ (FailedStep = "pipeline") => (body = gerr /\ presignCtx = "none")
            /\ (status = 200) => (body = PresignBody(TRUE) \/ body = PresignBody(FALSE)))
    /\ [][status # 0 => status' = status]_vars

C13_Witness == hpc = "done" /\ status = 500 /\ FailedStep = "pipeline"

\* The nodes directly below p, by ascending file name.
RECURSIVE ByName(_, _)
ByName(f, S) ==
    IF S = {} THEN <<>>
    ELSE LET m == CHOOSE q \in S :
                      \A r \in S \ {q} : Rank(q[Len(q)]) < Rank(r[Len(r)])
         IN <<m>> \o ByName(f, S \ {m})

Below(f, p) ==
    {q \in DOMAIN f : /\ Len(q) = Len(p) + 1
                      /\ \A k \in 1..Len(p) : q[k] = p[k]
                      /\ f[q].kind # "absent"}

\* The nodes in and below the nodes ps, depth first, each directory before
\* its children and the children by name.
RECURSIVE DepthFirst(_, _)
DepthFirst(f, ps) ==
    IF ps = <<>> THEN <<>>
    ELSE <<Head(ps)>> \o DepthFirst(f, ByName(f, Below(f, Head(ps))))
                      \o DepthFirst(f, Tail(ps))

\* The node gets an entry: not below dev/, proc/ or sys/, and no socket.
Archived(p) ==
    /\ ~(Len(p) >= 2 /\ p[1] \in VirtualNames)
    /\ fs[p].kind # "socket"

\* The names and types DumpDir is to emit for the tree, in order.
ExpectedOrder ==
    LET ps == SelectSeq(DepthFirst(fs, ByName(fs, Below(fs, <<>>))), Archived)
    IN [i \in 1..Len(ps) |-> [name |-> ps[i], type |-> fs[ps[i]].kind]]

\* C14: a walk that completes on a tree with no failure and no change gives
\* the entry names and types that the tree alone determines: its nodes
\* depth first, the children of each directory by name.  Two runs on the
\* same unchanged tree so give the same sequence.
C14_DeterministicOrder ==
    (finalized /\ ~fsFault) =>
        [i \in 1..Len(entries) |->
            [name |-> entries[i].name, type |-> entries[i].type]] = ExpectedOrder

C14_Witness ==
    /\ finalized
    /\ ~fsFault
    /\ Len(entries) = 5
    /\ entries[5].name = <<"srv", "x", "f">>

\* C15: DumpDir never returns an error for a permission-denied failure of
\* retrieving a node's metadata; the walk goes on.
C15_MetadataPermissionDeniedContinues ==
    derr # Wrap("error dumping dir", Wrap("error getting file info", ErrPermission))

\* C16: DumpDir never returns an error whose cause is that a node does not
\* exist any more.
C16_VanishedNodeNeverFails == ~Is(derr, ErrNotExist)

\* WalkDir returned nil: DumpDir's error, if any, is not a wrapped abort.
WalkCompleted == ~(derr # Nil /\ derr[1] = "error dumping dir")

\* C17 as stated: once DumpDir has returned, the archive is finalized
\* exactly if the walk completed without error.
C17_FinalizedIffWalkCompleted == WalkOver => (finalized <=> WalkCompleted)

\* C17 amended: the archive is finalized exactly if DumpDir returns nil,
\* that is if the walk completed without error and archW.Close did not
\* fail for an entry left short; an abort of the walk is returned wrapped,
\* not finalized; whatever error DumpDir returns, the producer closes
\* pipeW with it and never cleanly, and it closes pipeW cleanly only after
\* DumpDir returned nil.
C17_FinalizedIffNoError ==
    /\ ~WalkOver => (~finalized /\ pipeClosed = "open")
    /\ WalkOver =>
           /\ finalized <=> (derr = Nil)
           /\ derr # Nil => (derr[1] = "error dumping dir" \/ derr = ErrMissedWriting)
           /\ (derr = ErrMissedWriting) =>
                  \E i \in 1..Len(entries) : entries[i].written < entries[i].size
           /\ ~ProducerDone => pipeClosed = "open"
           /\ ProducerDone =>
                  IF derr # Nil
                  THEN pipeClosed = "err" /\ pipeErr = derr
                  ELSE pipeClosed = "eof"

C17_Witness ==
    /\ ProducerDone
    /\ derr # Nil
    /\ derr[1] = "error dumping dir"
    /\ entries # <<>>
    /\ pipeClosed = "err"

\* C18: while a pipe write is pending the producer takes no step and the
\* pending bytes only go down, taken by the upload task; and while no write
\* is pending and the pipe is open, an upload task that reads takes no step.
C18_PipeBackpressure ==
    [][ /\ pipePending > 0 =>
               /\ UNCHANGED <<ppc, derr, stack, cur, entries, calls, tarRemaining,
                              finalized, gzHeader, pipeClosed>>
               /\ pipePending' <= pipePending
               /\ (pipePending' < pipePending => upc = "read")
        /\ (upc = "read" /\ pipePending = 0 /\ pipeClosed = "open") =>
               UNCHANGED uvars ]_vars

C18_Witness ==
    /\ pipePending > 0
    /\ ppc = "copy"
    /\ upc = "send"

\* C19: PresignedGetObject is only ever called with ctx cancelled: on the
\* success path no task failed, and errg.Wait cancelled ctx when it returned.
C19_PresignUnderCancelledCtx ==
    /\ presignCtx # "live"
    /\ hpc = "presign" => (ctxDone /\ gerr = Nil /\ uerr = Nil /\ derr = Nil)

C19_Witness == presignCtx = "canceled" /\ gerr = Nil /\ body = <<"url">>

\* The walker reported a failure of the stat or the listing of the root.
RootFailed == \E i \in 1..Len(calls) : calls[i].path = <<>> /\ calls[i].err # Nil

\* C20: when the root cannot be stat'ed or listed, DumpDir returns nil with
\* a finalized archive of zero entries; and no error the walker reports for
\* the root or for a path below dev/, proc/ or sys/ is returned by DumpDir.
C20_RootAndVirtualErrorsSwallowed ==
    /\ RootFailed => (entries = <<>> /\ (WalkOver => (derr = Nil /\ finalized)))
    /\ \A i \in 1..Len(calls) :
           (/\ calls[i].err # Nil
            /\ \/ calls[i].path = <<>>
               \/ (Len(calls[i].path) >= 2 /\ calls[i].path[1] \in VirtualNames))
           => ~(i = Len(calls) /\ derr = Wrap("error dumping dir", calls[i].err))

C20_Witness ==
    /\ RootFailed
    /\ ProducerDone
    /\ finalized
    /\ entries = <<>>
    /\ \E i \in 1..Len(calls) :
           /\ calls[i].path = <<>>
           /\ calls[i].err = ErrNotExist

====
